---- MODULE Spec2Model ----
(***************************************************************************)
(* Job-control core of the shell (src/unnamed/part_000): the handshake     *)
(* between input_handler and commands_handler, command_fork, the Job       *)
(* Registry (bg_head list), prompt_show, command_exit_handler and the      *)
(* SIGCHLD / SIGINT handler that runs on the main thread.                  *)
(*                                                                         *)
(* Three contexts run concurrently: the input thread, the commands thread  *)
(* (both with every signal blocked) and the signal handler on the main     *)
(* thread, which takes no lock.  The heap is modelled node by node so that *)
(* the unsynchronised accesses to the bg_head list are visible: a freed    *)
(* node keeps its bytes, malloc may hand it out again, and touching a      *)
(* freed node is undefined behaviour whose outcomes are "the process dies" *)
(* or "the access reads / writes whatever the node now holds".             *)
(*                                                                         *)
(* Pids are handed out fresh (the OS does not reuse a pid within a run),   *)
(* and the pthread primitives themselves do not fail.                      *)
(***************************************************************************)
EXTENDS Integers, Sequences, FiniteSets, TLC

\* ------------------------------------------------------------------ bounds
\* Number of child processes the shell may create in one run (pids 1..MaxPid).
MaxPid == 2
\* A notification counter stops counting here ("printed twice" is 2).
MaxPrints == 2
\* Scaled-down EFFECTIVE_BUFFER_SIZE (512 in the source): longest accepted line.
EFFECTIVE_BUFFER_SIZE == 5

BUFFER_SIZE == EFFECTIVE_BUFFER_SIZE + 1

\* --------------------------------------------------------------- characters
NUL == "NUL"
NL == "NL"
SP == " "
RUN_IN_BG == "&"
REDIR_OUT == ">"
REDIR_IN == "<"
CMD_EXIT == <<"e", "x", "i", "t">>

isspace(c) == c \in {SP, NL}

NULLP == 0
NOPID == -1

Pids == 1..MaxPid
\* Heap addresses malloc(sizeof(process_t)) can return: one per possible job.
Nodes == 1..MaxPid
BufIdx == 0..(BUFFER_SIZE - 1)

\* ------------------------------------------------------------- input_read
\* What read(STDIN_FILENO, buffer, BUFFER_SIZE) returned: n < 0 is a failed
\* read, otherwise n = Len(bytes) <= BUFFER_SIZE.
EOF == "EOF"
ReadOk(bytes) == [n |-> Len(bytes), bytes |-> bytes]
ReadFail == [n |-> -1, bytes |-> <<>>]

ZeroBuffer == [i \in BufIdx |-> NUL]

\* The buffer right after memset + read.
FilledBuffer(rd) ==
    [i \in BufIdx |-> IF i < rd.n THEN rd.bytes[i + 1] ELSE NUL]

strcpy(buf, str) ==
    [i \in BufIdx |-> IF i < Len(str) THEN str[i + 1]
                      ELSE IF i = Len(str) THEN NUL ELSE buf[i]]

\* Mutant of input_read: end of input leaves the buffer empty (no strcpy).
input_read_eof_blank(rd) ==
    LET buf == FilledBuffer(rd) IN
    IF rd.n < 0 THEN
        [ret |-> -1, buffer |-> buf, echo |-> <<>>, err |-> "read",
         drain |-> FALSE]
    ELSE IF rd.n > EFFECTIVE_BUFFER_SIZE THEN
        [ret |-> -1, buffer |-> buf, echo |-> <<>>, err |-> "toolong",
         drain |-> buf[rd.n - 1] # NL]
    ELSE IF rd.n = 0 THEN
        [ret |-> 0, buffer |-> buf, echo |-> CMD_EXIT \o <<NL>>, err |-> "none",
         drain |-> FALSE]
    ELSE IF buf[rd.n - 1] = NL THEN
        [ret |-> 0, buffer |-> [buf EXCEPT ![rd.n - 1] = NUL],
         echo |-> <<>>, err |-> "none", drain |-> FALSE]
    ELSE
        [ret |-> 0, buffer |-> [buf EXCEPT ![rd.n] = NUL],
         echo |-> <<NL>>, err |-> "none", drain |-> FALSE]

\* input_read up to its return or to the loop that reads the rest of an
\* over-long line: the return value, the buffer it leaves, what it prints,
\* and whether that loop is entered (the last byte read is not a newline).
input_read(rd) ==
    LET buf == FilledBuffer(rd) IN
    IF rd.n < 0 THEN
        [ret |-> -1, buffer |-> buf, echo |-> <<>>, err |-> "read",
         drain |-> FALSE]
    ELSE IF rd.n > EFFECTIVE_BUFFER_SIZE THEN
        [ret |-> -1, buffer |-> buf, echo |-> <<>>, err |-> "toolong",
         drain |-> buf[rd.n - 1] # NL]
    ELSE IF rd.n = 0 THEN
        [ret |-> 0, buffer |-> strcpy(buf, CMD_EXIT),
         echo |-> CMD_EXIT \o <<NL>>, err |-> "none", drain |-> FALSE]
    ELSE IF buf[rd.n - 1] = NL THEN
        [ret |-> 0, buffer |-> [buf EXCEPT ![rd.n - 1] = NUL],
         echo |-> <<>>, err |-> "none", drain |-> FALSE]
    ELSE
        [ret |-> 0, buffer |-> [buf EXCEPT ![rd.n] = NUL],
         echo |-> <<NL>>, err |-> "none", drain |-> FALSE]

\* ----------------------------------------------------------- command_parse
\* One iteration of the scanning loop; st carries buffer, token, ignore and
\* the command under construction (args, in, out hold buffer offsets).
ParseStep(st, i) ==
    LET c == st.buffer[i] IN
    IF isspace(c) \/ c = NUL THEN
        [st EXCEPT !.buffer[i] = NUL, !.ignore = FALSE]
    ELSE IF c \in {RUN_IN_BG, REDIR_OUT, REDIR_IN} THEN
        [st EXCEPT !.buffer[i] = NUL, !.ignore = FALSE, !.token = c,
                   !.run_in_bg = IF c = RUN_IN_BG THEN TRUE ELSE @]
    ELSE IF ~st.ignore THEN
        IF st.token = REDIR_IN THEN [st EXCEPT !.in = i, !.ignore = TRUE]
        ELSE IF st.token = REDIR_OUT THEN [st EXCEPT !.out = i, !.ignore = TRUE]
        ELSE [st EXCEPT !.args = Append(@, i), !.ignore = TRUE]
    ELSE st

RECURSIVE ParseFrom(_, _)
ParseFrom(st, i) ==
    IF i >= EFFECTIVE_BUFFER_SIZE THEN st
    ELSE ParseFrom(ParseStep(st, i), i + 1)

ParseInit(buf) ==
    [buffer |-> buf, token |-> NUL, ignore |-> FALSE, run_in_bg |-> FALSE,
     args |-> <<>>, in |-> -1, out |-> -1]

\* The C string that starts at offset i of buf.
RECURSIVE CStr(_, _)
CStr(buf, i) ==
    IF i > BUFFER_SIZE - 1 \/ buf[i] = NUL THEN <<>>
    ELSE <<buf[i]>> \o CStr(buf, i + 1)

\* command_parse: the command (strings resolved in the buffer as parsing
\* left it) and the buffer after the in-place scan.
command_parse(buf) ==
    LET st == ParseFrom(ParseInit(buf), 0) IN
    [buffer |-> st.buffer,
     run_in_bg |-> st.run_in_bg,
     args |-> [k \in 1..Len(st.args) |-> CStr(st.buffer, st.args[k])],
     in |-> IF st.in = -1 THEN <<>> ELSE CStr(st.buffer, st.in),
     out |-> IF st.out = -1 THEN <<>> ELSE CStr(st.buffer, st.out)]

\* ------------------------------------------------------------------- state
VARIABLES
    pc,           \* position of each context: input, cmd, main
    shell,        \* "running", "success" (exit(EXIT_SUCCESS)) or "crashed"
    mutex,        \* owner of the handshake mutex: "none", "input", "cmd"
    new_command,  \* static int new_command
    interrupt,    \* static volatile sig_atomic_t interrupt
    fg_pid,       \* static volatile pid_t fg_pid
    bg_head,      \* static process_t *bg_head
    buffer,       \* static char buffer[BUFFER_SIZE]
    heap,         \* bytes of every process_t address: next, running, pid
    alloc,        \* which addresses are currently malloc'ed
    child,        \* OS view of each pid: "unborn", "running", "zombie", "reaped"
    kind,         \* how each pid was launched: "none", "fg", "bg"
    sigchld,      \* SIGCHLD pending for the process
    sigint,       \* SIGINT pending for the process
    ps,           \* prompt_show locals (curr_process, prev_process) per context
    hl,           \* sig_handler locals: c_pid, process
    cl,           \* commands thread locals: command, c_pid, process, curr_process
    started,      \* number of "[pid] Started" lines printed, per pid
    finished,     \* number of "[pid] Finished" lines printed, per pid
    sigkill,      \* pids the exit built-in sent SIGKILL to
    sigint_sent,  \* target of the handler's last kill(fg_pid, SIGINT) in this cycle
    lastRead,     \* what the last read() of input_read returned
    echoed,       \* what the last input_read printed on stdout
    diag,         \* last diagnostic of each side: input, cmd
    forkRet,      \* return value of command_fork (0 / -1) until the cycle ends, else 1
    waitRes,      \* outcome of the last explicit foreground waitpid
    hReaped,      \* children reaped by the current SIGCHLD activation
    exitReg,      \* <<pid, running>> of the Registry when the exit built-in began
    exitFin       \* the "Finished" counts when command_exit_handler returned

threadVars == <<pc, shell>>
syncVars == <<mutex, new_command, interrupt>>
listVars == <<bg_head, heap, alloc>>
osVars == <<child, kind, sigchld, sigint>>
localVars == <<ps, hl, cl>>
outVars == <<started, finished, sigkill, sigint_sent>>
inputVars == <<buffer, lastRead, echoed>>
exitVars == <<exitReg, exitFin>>
ghostVars == <<diag, forkRet, waitRes, hReaped, exitVars>>

vars == <<pc, shell, mutex, new_command, interrupt, fg_pid, bg_head, buffer,
          heap, alloc, child, kind, sigchld, sigint, ps, hl, cl, started,
          finished, sigkill, sigint_sent, lastRead, echoed, diag, forkRet, waitRes,
          hReaped, exitReg, exitFin>>

NoNode == [next |-> NULLP, running |-> 0, pid |-> NOPID]
NoPs == [curr |-> NULLP, prev |-> NULLP]
NoHl == [c_pid |-> NOPID, process |-> NULLP]
NoCommand == [run_in_bg |-> FALSE, args |-> <<>>, in |-> <<>>, out |-> <<>>]
NoCl == [command |-> NoCommand, c_pid |-> NOPID, process |-> NULLP,
         curr |-> NULLP]
NoRead == [n |-> -2, bytes |-> <<>>]

Init ==
    /\ pc = [input |-> "i_top", cmd |-> "c_top", main |-> "idle"]
    /\ shell = "running"
    /\ mutex = "none"
    /\ new_command = 0
    /\ interrupt = 0
    /\ fg_pid = NOPID
    /\ bg_head = NULLP
    /\ buffer = ZeroBuffer
    /\ heap = [n \in Nodes |-> NoNode]
    /\ alloc = [n \in Nodes |-> FALSE]
    /\ child = [p \in Pids |-> "unborn"]
    /\ kind = [p \in Pids |-> "none"]
    /\ sigchld = FALSE
    /\ sigint = FALSE
    /\ ps = [x \in {"input", "main"} |-> NoPs]
    /\ hl = NoHl
    /\ cl = NoCl
    /\ started = [p \in Pids |-> 0]
    /\ finished = [p \in Pids |-> 0]
    /\ sigkill = {}
    /\ sigint_sent = <<>>
    /\ lastRead = NoRead
    /\ echoed = <<>>
    /\ diag = [input |-> "none", cmd |-> "none"]
    /\ forkRet = 1
    /\ waitRes = "none"
    /\ hReaped = 0
    /\ exitReg = {}
    /\ exitFin = [p \in Pids |-> 0]

Running == shell = "running"

\* The nodes of the list that starts at n (the Job Registry is the list at
\* bg_head); the fuel stops the walk on a list that a race has made cyclic.
RECURSIVE Reach(_, _)
Reach(n, fuel) ==
    IF n = NULLP \/ fuel = 0 THEN {}
    ELSE {n} \cup Reach(heap[n].next, fuel - 1)

Registry == Reach(bg_head, MaxPid)

Bump(n) == IF n < MaxPrints THEN n + 1 ELSE n

\* Undefined behaviour on a freed node, outcome "the process dies" (SIGSEGV,
\* or abort() from the allocator's double-free check).
Crash ==
    /\ shell' = "crashed"
    /\ UNCHANGED <<pc, syncVars, fg_pid, listVars, osVars, localVars, outVars,
                   inputVars, ghostVars>>

\* ------------------------------------------------- pthread_cond_signal/wait
Blocked(pcs) ==
    {t \in {"input", "cmd"} : pcs[t] = (IF t = "input" THEN "i_blocked" ELSE "c_blocked")}

Reacq(t) == IF t = "input" THEN "i_reacq" ELSE "c_reacq"

\* pthread_cond_signal(&cond): the positions after it, given the positions
\* pcs the caller has moved to; it wakes one waiter when there is one.
cond_signal(pcs) ==
    IF Blocked(pcs) = {} THEN {pcs}
    ELSE {[pcs EXCEPT ![t] = Reacq(t)] : t \in Blocked(pcs)}

\* A thread blocked in pthread_cond_wait may wake up spuriously.
SpuriousWake(t) ==
    /\ Running
    /\ t \in Blocked(pc)
    /\ pc' = [pc EXCEPT ![t] = Reacq(t)]
    /\ UNCHANGED <<shell, syncVars, fg_pid, listVars, osVars, localVars,
                   outVars, inputVars, ghostVars>>

\* Woken from pthread_cond_wait: take the mutex again, re-test the predicate.
CondReacquire(t) ==
    /\ Running
    /\ pc[t] = Reacq(t)
    /\ mutex = "none"
    /\ mutex' = t
    /\ pc' = [pc EXCEPT ![t] = IF t = "input" THEN "i_wait" ELSE "c_wait"]
    /\ UNCHANGED <<shell, new_command, interrupt, fg_pid, listVars, osVars,
                   localVars, outVars, inputVars, ghostVars>>

\* ------------------------------------------------------------- prompt_show
\* Where prompt_show returns to: input_handler goes on to input_read, the
\* SIGINT handler returns to the interrupted main thread.
PromptReturn(x) == IF x = "input" THEN "i_read" ELSE "idle"

\* while (curr_process != NULL): test of one node's running flag; a running
\* node is stepped over, a finished one is handed to PromptRemove; at the end
\* of the list the prompt is printed.
PromptTest(x) ==
    /\ Running
    /\ pc[x] = "ps_test"
    /\ LET curr == ps[x].curr IN
       IF curr = NULLP THEN
           /\ pc' = [pc EXCEPT ![x] = PromptReturn(x)]
           /\ ps' = [ps EXCEPT ![x] = NoPs]
           /\ UNCHANGED <<shell, syncVars, fg_pid, listVars, osVars, hl, cl,
                          outVars, inputVars, ghostVars>>
       ELSE
           \/ /\ IF heap[curr].running = 0
                 THEN /\ pc' = [pc EXCEPT ![x] = "ps_remove"]
                      /\ ps' = ps
                 ELSE /\ pc' = pc
                      /\ ps' = [ps EXCEPT ![x] = [curr |-> heap[curr].next,
                                                  prev |-> curr]]
              /\ UNCHANGED <<shell, syncVars, fg_pid, listVars, osVars, hl, cl,
                             outVars, inputVars, ghostVars>>
           \/ /\ ~alloc[curr]
              /\ Crash

\* A finished node: print "[pid] Finished", unlink it, free it, continue.
PromptRemove(x) ==
    /\ Running
    /\ pc[x] = "ps_remove"
    /\ LET curr == ps[x].curr
           prev == ps[x].prev
           freed == ~alloc[curr] \/ (prev # NULLP /\ ~alloc[prev])
       IN
       \/ /\ finished' = IF heap[curr].pid \in Pids
                         THEN [finished EXCEPT ![heap[curr].pid] = Bump(@)]
                         ELSE finished
          /\ IF prev = NULLP
             THEN /\ bg_head' = heap[curr].next
                  /\ heap' = heap
             ELSE /\ bg_head' = bg_head
                  /\ heap' = [heap EXCEPT ![prev].next = heap[curr].next]
          /\ ps' = [ps EXCEPT ![x].curr = heap[curr].next]
          /\ alloc' = [alloc EXCEPT ![curr] = FALSE]
          /\ pc' = [pc EXCEPT ![x] = "ps_test"]
          /\ UNCHANGED <<shell, syncVars, fg_pid, osVars, hl, cl, started,
                         sigkill, sigint_sent, inputVars, ghostVars>>
       \/ /\ freed
          /\ Crash

\* ----------------------------------------------------------- input_handler
\* What the user can feed one read(): end of input, "exit", an empty line,
\* a blank line, a foreground command, a background command, an over-long
\* line (cut by the read, or ending exactly with its newline), an error.
Line(str) == ReadOk(str \o <<NL>>)
TooLong == ReadOk([i \in 1..BUFFER_SIZE |-> "a"])
TooLongNL == Line([i \in 1..EFFECTIVE_BUFFER_SIZE |-> "a"])
Inputs ==
    {ReadOk(<<>>), Line(CMD_EXIT), Line(<<>>), Line(<<SP>>), Line(<<"a">>),
     Line(<<"a", RUN_IN_BG>>), TooLong, TooLongNL, ReadFail}

\* Whether executing the line in buf would call command_fork.
Forks(buf) ==
    LET args == command_parse(buf).args IN
    args # <<>> /\ args[1] # CMD_EXIT

\* while (! interrupt) of input_handler, and pthread_exit after the loop.
InputLoop ==
    /\ Running
    /\ pc.input = "i_top"
    /\ pc' = [pc EXCEPT !.input = IF interrupt # 0 THEN "done" ELSE "i_lock"]
    /\ UNCHANGED <<shell, syncVars, fg_pid, listVars, osVars, localVars,
                   outVars, inputVars, ghostVars>>

\* pthread_mutex_lock, then prompt_show starts at the head of the list.
InputLock ==
    /\ Running
    /\ pc.input = "i_lock"
    /\ mutex = "none"
    /\ mutex' = "input"
    /\ ps' = [ps EXCEPT !.input = [curr |-> bg_head, prev |-> NULLP]]
    /\ pc' = [pc EXCEPT !.input = "ps_test"]
    /\ UNCHANGED <<shell, new_command, interrupt, fg_pid, listVars, osVars,
                   hl, cl, outVars, inputVars, ghostVars>>

\* input_read and, when it succeeded, new_command = 1 and the signal.  A
\* line that would fork is offered only while a pid is left (MaxPid).
InputRead ==
    /\ Running
    /\ pc.input = "i_read"
    /\ \E rd \in Inputs :
         LET r == input_read(rd) IN
         /\ (r.ret = 0 /\ Forks(r.buffer)) => (\E p \in Pids : child[p] = "unborn")
         /\ buffer' = r.buffer
         /\ lastRead' = rd
         /\ echoed' = r.echo
         /\ diag' = [diag EXCEPT !.input = r.err]
         /\ IF r.ret = 0
            THEN /\ new_command' = 1
                 /\ pc' \in cond_signal([pc EXCEPT !.input = "i_wait"])
            ELSE /\ new_command' = new_command
                 /\ pc' = [pc EXCEPT !.input =
                              IF r.drain THEN "i_drain" ELSE "i_unlock"]
    /\ UNCHANGED <<shell, mutex, interrupt, fg_pid, listVars, osVars,
                   localVars, outVars, forkRet, waitRes, hReaped,
                   exitVars>>

\* while (getchar() != '\n'): one getchar of the loop that reads the rest of
\* an over-long line.  A newline ends the loop and input_read returns -1;
\* another character keeps it going; at the end of input getchar returns
\* EOF, now and on every later call, so the loop never ends ("i_drain_eof").
InputDrain ==
    /\ Running
    /\ pc.input = "i_drain"
    /\ \E c \in {"a", NL, EOF} :
         pc' = [pc EXCEPT !.input = IF c = NL THEN "i_unlock"
                                    ELSE IF c = EOF THEN "i_drain_eof"
                                    ELSE "i_drain"]
    /\ UNCHANGED <<shell, syncVars, fg_pid, listVars, osVars, localVars,
                   outVars, inputVars, ghostVars>>

\* while (new_command) pthread_cond_wait(&cond, &mutex).
InputWait ==
    /\ Running
    /\ pc.input = "i_wait"
    /\ IF new_command # 0
       THEN /\ mutex' = "none"
            /\ pc' = [pc EXCEPT !.input = "i_blocked"]
       ELSE /\ mutex' = mutex
            /\ pc' = [pc EXCEPT !.input = "i_unlock"]
    /\ UNCHANGED <<shell, new_command, interrupt, fg_pid, listVars, osVars,
                   localVars, outVars, inputVars, ghostVars>>

\* pthread_mutex_unlock at the end of one cycle.
InputUnlock ==
    /\ Running
    /\ pc.input = "i_unlock"
    /\ mutex' = "none"
    /\ pc' = [pc EXCEPT !.input = "i_top"]
    /\ lastRead' = NoRead
    /\ echoed' = <<>>
    /\ diag' = [diag EXCEPT !.input = "none"]
    /\ UNCHANGED <<shell, new_command, interrupt, fg_pid, listVars, osVars,
                   localVars, outVars, buffer, forkRet, waitRes, hReaped,
                   exitVars>>

\* -------------------------------------------------------- commands_handler
\* while (! interrupt) of commands_handler, and pthread_exit after the loop.
CmdLoop ==
    /\ Running
    /\ pc.cmd = "c_top"
    /\ pc' = [pc EXCEPT !.cmd = IF interrupt # 0 THEN "done" ELSE "c_lock"]
    /\ UNCHANGED <<shell, syncVars, fg_pid, listVars, osVars, localVars,
                   outVars, inputVars, ghostVars>>

\* Mutant of CmdLock: commands_handler goes on without taking the mutex.
CmdLockMissing ==
    /\ Running
    /\ pc.cmd = "c_lock"
    /\ pc' = [pc EXCEPT !.cmd = "c_wait"]
    /\ UNCHANGED <<shell, syncVars, fg_pid, listVars, osVars, localVars,
                   outVars, inputVars, ghostVars>>

\* pthread_mutex_lock at the top of one cycle of commands_handler.
CmdLock ==
    /\ Running
    /\ pc.cmd = "c_lock"
    /\ mutex = "none"
    /\ mutex' = "cmd"
    /\ pc' = [pc EXCEPT !.cmd = "c_wait"]
    /\ UNCHANGED <<shell, new_command, interrupt, fg_pid, listVars, osVars,
                   localVars, outVars, inputVars, ghostVars>>

\* while (! new_command) pthread_cond_wait(&cond, &mutex).
CmdWait ==
    /\ Running
    /\ pc.cmd = "c_wait"
    /\ IF new_command = 0
       THEN /\ mutex' = "none"
            /\ pc' = [pc EXCEPT !.cmd = "c_blocked"]
       ELSE /\ mutex' = mutex
            /\ pc' = [pc EXCEPT !.cmd = "c_exec"]
    /\ UNCHANGED <<shell, new_command, interrupt, fg_pid, listVars, osVars,
                   localVars, outVars, inputVars, ghostVars>>

\* Mutant of command_dispatch: no test for the empty command.
command_dispatch_unchecked(args) ==
    IF args # <<>> /\ args[1] = CMD_EXIT THEN "x_loop" ELSE "c_fork"

\* What command_execute does with the parsed arguments: nothing for an
\* empty command, command_exit_handler for "exit", command_fork otherwise.
command_dispatch(args) ==
    IF args = <<>> THEN "c_fin"
    ELSE IF args[1] = CMD_EXIT THEN "x_loop"
    ELSE "c_fork"

\* command_execute up to its dispatch: command_parse, then the empty
\* command, the exit built-in (command_exit_handler starts at bg_head) or
\* command_fork.
CmdExecute ==
    /\ Running
    /\ pc.cmd = "c_exec"
    /\ \/ \* malloc of the argument array failed: command_parse returns -1
          /\ diag' = [diag EXCEPT !.cmd = "malloc"]
          /\ pc' = [pc EXCEPT !.cmd = "c_fin"]
          /\ UNCHANGED <<buffer, cl, exitReg>>
       \/ LET cmd == command_parse(buffer)
              to == command_dispatch(cmd.args)
          IN
          /\ diag' = [diag EXCEPT !.cmd = "none"]
          /\ buffer' = cmd.buffer
          /\ pc' = [pc EXCEPT !.cmd = to]
          /\ IF to = "c_fin" THEN
                 /\ UNCHANGED <<cl, exitReg>>
             ELSE IF to = "x_loop" THEN
                 /\ cl' = [cl EXCEPT !.curr = bg_head]
                 /\ exitReg' = {<<heap[n].pid, heap[n].running>> : n \in Registry}
             ELSE
                 /\ cl' = [cl EXCEPT !.command =
                              [run_in_bg |-> cmd.run_in_bg, args |-> cmd.args,
                               in |-> cmd.in, out |-> cmd.out]]
                 /\ exitReg' = exitReg
    /\ UNCHANGED <<shell, syncVars, fg_pid, listVars, osVars, ps, hl, outVars,
                   lastRead, echoed, forkRet, waitRes, hReaped, exitFin>>

\* ------------------------------------------------------------ command_fork
FreshPid == CHOOSE p \in Pids : child[p] = "unborn" /\ \A q \in Pids : child[q] = "unborn" => p <= q

\* Mutant of fork_branch: every child is registered as a background job.
fork_branch_always_bg(run_in_bg) == "c_bg1"

\* if (! command->run_in_bg): where the parent goes after a successful fork.
fork_branch(run_in_bg) == IF run_in_bg THEN "c_bg1" ELSE "c_setfg"

\* fork(): it fails, or the child exists from here on (the child side, the
\* redirections and execvp, belongs to the child process).
CmdFork ==
    /\ Running
    /\ pc.cmd = "c_fork"
    /\ \/ /\ diag' = [diag EXCEPT !.cmd = "fork"]
          /\ forkRet' = -1
          /\ pc' = [pc EXCEPT !.cmd = "c_fin"]
          /\ UNCHANGED <<child, kind, cl>>
       \/ /\ \E p \in Pids : child[p] = "unborn"
          /\ child' = [child EXCEPT ![FreshPid] = "running"]
          /\ kind' = [kind EXCEPT ![FreshPid] =
                         IF cl.command.run_in_bg THEN "bg" ELSE "fg"]
          /\ cl' = [cl EXCEPT !.c_pid = FreshPid]
          /\ pc' = [pc EXCEPT !.cmd = fork_branch(cl.command.run_in_bg)]
          /\ UNCHANGED <<diag, forkRet>>
    /\ UNCHANGED <<shell, syncVars, fg_pid, listVars, sigchld, sigint, ps, hl,
                   outVars, inputVars, waitRes, hReaped,
                   exitVars>>

\* fg_pid = c_pid.
CmdSetFg ==
    /\ Running
    /\ pc.cmd = "c_setfg"
    /\ fg_pid' = cl.c_pid
    /\ pc' = [pc EXCEPT !.cmd = "c_waitpid"]
    /\ UNCHANGED <<shell, syncVars, listVars, osVars, localVars, outVars,
                   inputVars, ghostVars>>

\* Mutant of wait_failed: every failure of waitpid is an error, ECHILD too.
wait_failed_strict(errno) == "error"

\* What the loop does with a failed waitpid: "break" or the error return.
wait_failed(errno) == IF errno # "ECHILD" THEN "error" ELSE "break"

\* Mutant of CmdWaitpid: command_fork does not wait for the child at all.
CmdWaitpidSkipped ==
    /\ Running
    /\ pc.cmd = "c_waitpid"
    /\ pc' = [pc EXCEPT !.cmd = "c_clearfg"]
    /\ UNCHANGED <<shell, syncVars, fg_pid, listVars, osVars, localVars,
                   outVars, inputVars, ghostVars>>

\* waitpid(c_pid, &status, 0): blocks while the child runs; reaps it when it
\* is a zombie; fails with ECHILD when the handler has reaped it already.
\* (No other failure: every signal is blocked in this thread, so no EINTR;
\* without WUNTRACED a successful waitpid means the child has terminated,
\* so the do-while ends after one successful call.)
CmdWaitpid ==
    /\ Running
    /\ pc.cmd = "c_waitpid"
    /\ \/ /\ child[cl.c_pid] = "zombie"
          /\ child' = [child EXCEPT ![cl.c_pid] = "reaped"]
          /\ waitRes' = "reaped"
          /\ pc' = [pc EXCEPT !.cmd = "c_clearfg"]
          /\ UNCHANGED <<fg_pid, diag, forkRet>>
       \/ /\ child[cl.c_pid] = "reaped"
          /\ waitRes' = "echild"
          /\ child' = child
          /\ IF wait_failed("ECHILD") = "error"
             THEN /\ diag' = [diag EXCEPT !.cmd = "waitpid"]
                  /\ fg_pid' = NOPID
                  /\ forkRet' = -1
                  /\ pc' = [pc EXCEPT !.cmd = "c_fin"]
             ELSE /\ pc' = [pc EXCEPT !.cmd = "c_clearfg"]
                  /\ UNCHANGED <<fg_pid, diag, forkRet>>
    /\ UNCHANGED <<shell, syncVars, listVars, kind, sigchld, sigint,
                   localVars, outVars, inputVars, hReaped,
                   exitVars>>

\* fg_pid = -1 after the wait loop; command_fork returns 0.
CmdClearFg ==
    /\ Running
    /\ pc.cmd = "c_clearfg"
    /\ fg_pid' = NOPID
    /\ forkRet' = 0
    /\ pc' = [pc EXCEPT !.cmd = "c_fin"]
    /\ UNCHANGED <<shell, syncVars, listVars, osVars, localVars, outVars,
                   inputVars, diag, waitRes, hReaped,
                   exitVars>>

\* Background branch: malloc, "[pid] Started", the node's fields, and the
\* first half of the insertion (bg_head = process on an empty list,
\* process->next = bg_head otherwise).
CmdBgCreate ==
    /\ Running
    /\ pc.cmd = "c_bg1"
    /\ \/ /\ diag' = [diag EXCEPT !.cmd = "malloc"]
          /\ forkRet' = -1
          /\ pc' = [pc EXCEPT !.cmd = "c_fin"]
          /\ UNCHANGED <<listVars, cl, started>>
       \/ \E n \in Nodes :
          /\ ~alloc[n]
          /\ alloc' = [alloc EXCEPT ![n] = TRUE]
          /\ started' = [started EXCEPT ![cl.c_pid] = Bump(@)]
          /\ heap' = [heap EXCEPT ![n] =
                         [next |-> bg_head, running |-> 1, pid |-> cl.c_pid]]
          /\ IF bg_head = NULLP
             THEN /\ bg_head' = n
                  /\ forkRet' = 0
                  /\ pc' = [pc EXCEPT !.cmd = "c_fin"]
                  /\ cl' = cl
             ELSE /\ bg_head' = bg_head
                  /\ forkRet' = forkRet
                  /\ pc' = [pc EXCEPT !.cmd = "c_bg2"]
                  /\ cl' = [cl EXCEPT !.process = n]
          /\ diag' = diag
    /\ UNCHANGED <<shell, syncVars, fg_pid, osVars, ps, hl, finished, sigkill,
                   sigint_sent, inputVars, waitRes, hReaped, exitVars>>

\* Second half of the insertion: bg_head = process; command_fork returns 0.
CmdBgLink ==
    /\ Running
    /\ pc.cmd = "c_bg2"
    /\ bg_head' = cl.process
    /\ forkRet' = 0
    /\ pc' = [pc EXCEPT !.cmd = "c_fin"]
    /\ UNCHANGED <<shell, syncVars, fg_pid, heap, alloc, osVars, localVars,
                   outVars, inputVars, diag, waitRes, hReaped,
                   exitVars>>

\* ---------------------------------------------------- command_exit_handler
\* Mutant of exit_kills: the job is signalled whatever its running flag.
exit_kills_all(node) == TRUE

\* Whether the exit built-in signals the job in this node.
exit_kills(node) == node.running # 0

\* One turn of the loop (kill when running, step on, free the node), or the
\* end of the list: bg_head = NULL.
ExitLoop ==
    /\ Running
    /\ pc.cmd = "x_loop"
    /\ LET curr == cl.curr IN
       IF curr = NULLP THEN
           /\ bg_head' = NULLP
           /\ pc' = [pc EXCEPT !.cmd = "x_intr"]
           /\ UNCHANGED <<shell, syncVars, fg_pid, heap, alloc, osVars,
                          localVars, outVars, inputVars, ghostVars>>
       ELSE
           \/ /\ sigkill' = IF exit_kills(heap[curr]) /\ heap[curr].pid \in Pids
                            THEN sigkill \cup {heap[curr].pid} ELSE sigkill
              /\ cl' = [cl EXCEPT !.curr = heap[curr].next]
              /\ heap' = [heap EXCEPT ![curr].next = NULLP]
              /\ alloc' = [alloc EXCEPT ![curr] = FALSE]
              /\ UNCHANGED <<pc, shell, syncVars, fg_pid, bg_head, osVars, ps,
                             hl, started, finished, sigint_sent, inputVars,
                             ghostVars>>
           \/ /\ ~alloc[curr]
              /\ Crash

\* interrupt = 1 at the end of command_exit_handler.
ExitInterrupt ==
    /\ Running
    /\ pc.cmd = "x_intr"
    /\ interrupt' = 1
    /\ exitFin' = finished
    /\ pc' = [pc EXCEPT !.cmd = "c_fin"]
    /\ UNCHANGED <<shell, mutex, new_command, fg_pid, listVars, osVars,
                   localVars, outVars, inputVars, diag, forkRet, waitRes,
                   hReaped, exitReg>>

\* Back in commands_handler: new_command = 0, pthread_cond_signal,
\* pthread_mutex_unlock.
CmdFinish ==
    /\ Running
    /\ pc.cmd = "c_fin"
    /\ new_command' = 0
    /\ mutex' = "none"
    /\ cl' = NoCl
    /\ pc' \in cond_signal([pc EXCEPT !.cmd = "c_top"])
    /\ diag' = [diag EXCEPT !.cmd = "none"]
    /\ forkRet' = 1
    /\ waitRes' = "none"
    /\ sigint_sent' = <<>>
    /\ UNCHANGED <<shell, interrupt, fg_pid, listVars, osVars, ps, hl,
                   started, finished, sigkill, inputVars, hReaped, exitVars>>

\* ------------------------------------------------------------- sig_handler
Zombies == {p \in Pids : child[p] = "zombie"}

\* SIGCHLD is delivered to the main thread (the only one that has it
\* unblocked) while no handler is running there: sa_mask holds both signals.
SigChldDeliver ==
    /\ Running
    /\ pc.main = "idle"
    /\ sigchld
    /\ sigchld' = FALSE
    /\ pc' = [pc EXCEPT !.main = "h_chld"]
    /\ UNCHANGED <<shell, syncVars, fg_pid, listVars, child, kind, sigint,
                   localVars, outVars, inputVars, ghostVars>>

\* Mutant of after_reap: the handler returns after one child (if for while).
after_reap_once == "idle"

\* Where the handler goes after it has dealt with one reaped child: back to
\* the waitpid of the while loop.
after_reap == "h_chld"

\* while ((c_pid = waitpid(-1, NULL, WNOHANG)) > 0): one call.  With no
\* terminated child the loop ends and the handler returns (nothing but the
\* return follows that last call); otherwise one zombie is reaped and
\* compared with fg_pid.
ReaperWait ==
    /\ Running
    /\ pc.main = "h_chld"
    /\ IF Zombies = {} THEN
           /\ pc' = [pc EXCEPT !.main = "idle"]
           /\ hl' = NoHl
           /\ hReaped' = 0
           /\ UNCHANGED <<fg_pid, child>>
       ELSE
           \E z \in Zombies :
               /\ child' = [child EXCEPT ![z] = "reaped"]
               /\ hReaped' = hReaped + 1
               /\ IF z = fg_pid
                  THEN /\ fg_pid' = NOPID
                       /\ hl' = NoHl
                       /\ pc' = [pc EXCEPT !.main = after_reap]
                  ELSE /\ fg_pid' = fg_pid
                       /\ hl' = [c_pid |-> z, process |-> bg_head]
                       /\ pc' = [pc EXCEPT !.main = "h_search"]
    /\ UNCHANGED <<shell, syncVars, listVars, kind, sigchld, sigint, ps, cl,
                   outVars, inputVars, diag, forkRet, waitRes, exitVars>>

\* Mutant of reaper_match: the search flags the first job it meets.
reaper_match_any(node, c_pid) == TRUE

\* if (process->pid == c_pid): whether the node is the reaped child's job.
reaper_match(node, c_pid) == node.pid = c_pid

\* while (process != NULL): one node of the search for c_pid; the matching
\* node gets running = 0.
ReaperSearch ==
    /\ Running
    /\ pc.main = "h_search"
    /\ LET process == hl.process IN
       IF process = NULLP THEN
           /\ pc' = [pc EXCEPT !.main = after_reap]
           /\ hl' = NoHl
           /\ UNCHANGED <<shell, syncVars, fg_pid, listVars, osVars, ps, cl,
                          outVars, inputVars, ghostVars>>
       ELSE
           \/ /\ IF reaper_match(heap[process], hl.c_pid)
                 THEN /\ heap' = [heap EXCEPT ![process].running = 0]
                      /\ hl' = NoHl
                      /\ pc' = [pc EXCEPT !.main = after_reap]
                 ELSE /\ heap' = heap
                      /\ hl' = [hl EXCEPT !.process = heap[process].next]
                      /\ pc' = pc
              /\ UNCHANGED <<shell, syncVars, fg_pid, bg_head, alloc, osVars,
                             ps, cl, outVars, inputVars, ghostVars>>
           \/ /\ ~alloc[process]
              /\ Crash

\* SIGINT delivered: newline, then the test if (fg_pid != -1): on to the
\* kill when a foreground child is recorded, prompt_show otherwise.
SigIntDeliver ==
    /\ Running
    /\ pc.main = "idle"
    /\ sigint
    /\ sigint' = FALSE
    /\ sigint_sent' = <<>>
    /\ IF fg_pid # NOPID
       THEN /\ pc' = [pc EXCEPT !.main = "h_kill"]
            /\ ps' = ps
       ELSE /\ pc' = [pc EXCEPT !.main = "ps_test"]
            /\ ps' = [ps EXCEPT !.main = [curr |-> bg_head, prev |-> NULLP]]
    /\ UNCHANGED <<shell, syncVars, fg_pid, listVars, child, kind, sigchld,
                   hl, cl, started, finished, sigkill, inputVars, ghostVars>>

\* kill(fg_pid, SIGINT): the volatile fg_pid is read a second time, so the
\* target is its value now (-1, every process the shell may signal, when
\* command_fork has cleared it since the test); the handler returns.
SigIntKill ==
    /\ Running
    /\ pc.main = "h_kill"
    /\ sigint_sent' = <<fg_pid>>
    /\ pc' = [pc EXCEPT !.main = "idle"]
    /\ UNCHANGED <<shell, syncVars, fg_pid, listVars, osVars, localVars,
                   started, finished, sigkill, inputVars, ghostVars>>

\* ------------------------------------------------------------- environment
\* A running child terminates (by itself or by a signal): it becomes a
\* zombie and SIGCHLD is raised; pending SIGCHLDs do not queue.
ChildExit(p) ==
    /\ Running
    /\ child[p] = "running"
    /\ child' = [child EXCEPT ![p] = "zombie"]
    /\ sigchld' = TRUE
    /\ UNCHANGED <<threadVars, syncVars, fg_pid, listVars, kind, sigint,
                   localVars, outVars, inputVars, ghostVars>>

\* The user presses the interrupt key.
UserInterrupt ==
    /\ Running
    /\ ~sigint
    /\ sigint' = TRUE
    /\ UNCHANGED <<threadVars, syncVars, fg_pid, listVars, child, kind,
                   sigchld, localVars, outVars, inputVars, ghostVars>>

\* main: both pthread_join calls have returned, exit(EXIT_SUCCESS).
MainExit ==
    /\ Running
    /\ pc.input = "done"
    /\ pc.cmd = "done"
    /\ pc.main = "idle"
    /\ shell' = "success"
    /\ UNCHANGED <<pc, syncVars, fg_pid, listVars, osVars, localVars, outVars,
                   inputVars, ghostVars>>

\* ----------------------------------------------------------- specification
Next ==
    \/ InputLoop
    \/ InputLock
    \/ \E x \in {"input", "main"} : PromptTest(x)
    \/ \E x \in {"input", "main"} : PromptRemove(x)
    \/ InputRead
    \/ InputDrain
    \/ InputWait
    \/ InputUnlock
    \/ \E t \in {"input", "cmd"} : SpuriousWake(t)
    \/ \E t \in {"input", "cmd"} : CondReacquire(t)
    \/ CmdLoop
    \/ CmdLock
    \/ CmdWait
    \/ CmdExecute
    \/ CmdFork
    \/ CmdSetFg
    \/ CmdWaitpid
    \/ CmdClearFg
    \/ CmdBgCreate
    \/ CmdBgLink
    \/ ExitLoop
    \/ ExitInterrupt
    \/ CmdFinish
    \/ SigChldDeliver
    \/ ReaperWait
    \/ ReaperSearch
    \/ SigIntDeliver
    \/ SigIntKill
    \/ \E p \in Pids : ChildExit(p)
    \/ UserInterrupt
    \/ MainExit

Spec == Init /\ [][Next]_vars

\* ------------------------------------------------ commands of every shape
\* The characters of a command line: two letters, the space and the three
\* markers; every line of them that input_read accepts, and "exit".
ParserChars == {"a", "b", SP, REDIR_IN, REDIR_OUT, RUN_IN_BG}

ParserInputs ==
    {ReadOk(str) : str \in UNION {[1..k -> ParserChars] :
                                    k \in 0..EFFECTIVE_BUFFER_SIZE}}
        \cup {Line(CMD_EXIT)}

\* The shell with its first line read and handed over: input_handler waits
\* in pthread_cond_wait, commands_handler is about to call command_execute.
ParserInit ==
    /\ pc = [input |-> "i_blocked", cmd |-> "c_exec", main |-> "idle"]
    /\ shell = "running"
    /\ mutex = "cmd"
    /\ new_command = 1
    /\ interrupt = 0
    /\ fg_pid = NOPID
    /\ bg_head = NULLP
    /\ lastRead \in ParserInputs
    /\ buffer = input_read(lastRead).buffer
    /\ echoed = input_read(lastRead).echo
    /\ heap = [n \in Nodes |-> NoNode]
    /\ alloc = [n \in Nodes |-> FALSE]
    /\ child = [p \in Pids |-> "unborn"]
    /\ kind = [p \in Pids |-> "none"]
    /\ sigchld = FALSE
    /\ sigint = FALSE
    /\ ps = [x \in {"input", "main"} |-> NoPs]
    /\ hl = NoHl
    /\ cl = NoCl
    /\ started = [p \in Pids |-> 0]
    /\ finished = [p \in Pids |-> 0]
    /\ sigkill = {}
    /\ sigint_sent = <<>>
    /\ diag = [input |-> "none", cmd |-> "none"]
    /\ forkRet = 1
    /\ waitRes = "none"
    /\ hReaped = 0
    /\ exitReg = {}
    /\ exitFin = [p \in Pids |-> 0]

ParserSpec == ParserInit /\ [][CmdExecute]_vars

TypeOK ==
    /\ shell \in {"running", "success", "crashed"}
    /\ mutex \in {"none", "input", "cmd"}
    /\ new_command \in {0, 1}
    /\ interrupt \in {0, 1}
    /\ fg_pid \in Pids \cup {NOPID}
    /\ bg_head \in Nodes \cup {NULLP}

\* ------------------------------------------------------------------ claims
\* input_handler is in its section: prompt_show or input_read.
InputSection ==
    pc.input \in {"ps_test", "ps_remove", "i_read", "i_drain", "i_drain_eof"}

\* commands_handler is in command_execute: command_parse, command_fork or
\* command_exit_handler.
ExecSection ==
    pc.cmd \in {"c_exec", "c_fork", "c_setfg", "c_waitpid", "c_clearfg",
                "c_bg1", "c_bg2", "x_loop", "x_intr"}

\* C1: the input section (prompt_show + input_read of input_handler) and the
\* execution section (command_execute of commands_handler) are never active
\* at the same time, and each runs only with the handshake mutex held.
C1_MutualExclusion ==
    /\ ~(InputSection /\ ExecSection)
    /\ InputSection => mutex = "input"
    /\ ExecSection => mutex = "cmd"

\* C1 witness: a command is being executed while the input thread, woken
\* early from its wait, is trying to get back in.
C1_Witness == ExecSection /\ pc.input = "i_reacq" /\ new_command = 1

\* The exit built-in has begun (its traversal runs or it has returned).
ExitBegun == pc.cmd \in {"x_loop", "x_intr"} \/ interrupt = 1

\* C2: every background job that was launched and whose child has been
\* reaped has its "[pid] Finished" printed exactly once: never twice, and,
\* once command_fork and the Reaper are through with the pid, it is either
\* printed or waiting in the Registry flagged terminated for the next prompt.
C2_EveryJobNotifiedOnce ==
    \A p \in Pids :
        (kind[p] = "bg" /\ started[p] > 0) =>
            /\ finished[p] <= 1
            /\ (/\ child[p] = "reaped"
                /\ hl.c_pid # p
                /\ ~(pc.cmd \in {"c_bg1", "c_bg2"} /\ cl.c_pid = p)
                /\ ~ExitBegun)
               => \/ finished[p] = 1
                  \/ \E n \in Registry : heap[n].pid = p /\ heap[n].running = 0

\* C3: when command_fork returns from a foreground command, whichever of
\* the explicit waitpid and the Reaper reclaimed the child, the return value
\* is 0, no diagnostic was printed, the child is reclaimed and fg_pid is -1.
C3_ForegroundWaitRace ==
    (pc.cmd = "c_fin" /\ waitRes # "none") =>
        /\ fg_pid = NOPID
        /\ forkRet = 0
        /\ diag.cmd = "none"
        /\ child[cl.c_pid] = "reaped"

\* C3 witness: command_fork has returned after the Reaper won the race (the
\* explicit waitpid failed with ECHILD).
C3_Witness == pc.cmd = "c_fin" /\ waitRes = "echild" /\ forkRet = 0

\* C4: whenever the SIGCHLD handler returns, no terminated child is left
\* unreaped, however many had terminated.
C4_ReaperDrainsAll ==
    [][(pc.main \in {"h_chld", "h_search"} /\ pc'.main = "idle")
          => Zombies' = {}]_vars

\* C4 witness: one activation of the handler has reaped two children.
C4_Witness == pc.main = "h_chld" /\ hReaped >= 2

\* C5 as stated: when the exit built-in has walked the Registry, every Job
\* that was in it has been sent SIGKILL, whatever its liveness flag.
C5_ExitKillsEveryJob ==
    pc.cmd = "x_intr" => \A e \in exitReg : e[1] \in sigkill

\* C5 amended: the exit built-in signals the Jobs flagged alive (every Job
\* that was flagged alive and has not been reaped meanwhile) and sends no
\* signal to a Job flagged terminated-not-yet-reported.
C5_ExitKillsAliveJobsOnly ==
    pc.cmd = "x_intr" =>
        \A e \in exitReg :
            /\ e[2] = 0 => e[1] \notin sigkill
            /\ (e[2] # 0 /\ child[e[1]] # "reaped") => e[1] \in sigkill

\* C5 witness: exit has walked a Registry holding a Job flagged terminated
\* and a Job flagged alive, and has signalled the latter.
C5_Witness ==
    /\ pc.cmd = "x_intr"
    /\ \E e \in exitReg : e[2] = 0
    /\ \E e \in exitReg : e[2] # 0 /\ e[1] \in sigkill

\* C6: once command_exit_handler has returned, the Registry is empty, the
\* interrupt flag is set, and no "[pid] Finished" is printed any more for a
\* Job that was in the Registry when exit was issued.
C6_ExitSilencesJobs ==
    interrupt = 1 =>
        /\ pc.cmd = "c_fin" => bg_head = NULLP
        /\ \A e \in exitReg : e[1] \in Pids => finished[e[1]] = exitFin[e[1]]

\* A step of the shell itself (not of the user, a child or a spurious wake).
ShellStep ==
    \/ InputLoop \/ InputLock \/ InputRead \/ InputDrain \/ InputWait
    \/ InputUnlock
    \/ \E x \in {"input", "main"} : PromptTest(x) \/ PromptRemove(x)
    \/ \E t \in {"input", "cmd"} : CondReacquire(t)
    \/ CmdLoop \/ CmdLock \/ CmdWait \/ CmdFinish
    \/ SigChldDeliver \/ ReaperWait \/ ReaperSearch \/ SigIntDeliver
    \/ SigIntKill
    \/ MainExit

\* C7: once the exit built-in has set the interrupt flag, the shell is on
\* its way to exit(EXIT_SUCCESS): it has exited with success, or it is alive
\* and not stuck (some context of the shell can take its next step).
C7_ExitTerminatesShell ==
    interrupt = 1 =>
        \/ shell = "success"
        \/ shell = "running" /\ ENABLED ShellStep

\* C8: while a foreground child has been created and not yet reclaimed, the
\* input thread is waiting for the command to complete: it shows no prompt
\* and reads no line.
C8_ForegroundBlocksInput ==
    \A p \in Pids :
        (kind[p] = "fg" /\ child[p] \in {"running", "zombie"}) =>
            /\ pc.input \in {"i_blocked", "i_reacq"}
            /\ new_command = 1

\* C8 witness: a foreground child is running while the input thread, woken
\* early, is held back.
C8_Witness ==
    \E p \in Pids : kind[p] = "fg" /\ child[p] = "running" /\ pc.input = "i_reacq"

\* C9: a foreground child gets no "Started" and no "Finished" line, its pid
\* is in no node of the Job list, and a node is flagged terminated only for
\* its own background child, once that child has been reaped.
C9_NoNotificationForForeground ==
    /\ \A p \in Pids :
           kind[p] = "fg" =>
               /\ started[p] = 0
               /\ finished[p] = 0
               /\ \A n \in Nodes : heap[n].pid # p
    /\ \A n \in Nodes :
           (alloc[n] /\ heap[n].running = 0) =>
               /\ kind[heap[n].pid] = "bg"
               /\ child[heap[n].pid] = "reaped"

\* C9 witness: the Reaper has reaped a foreground child before fg_pid was
\* set and is searching a non-empty Registry for its pid.
C9_Witness ==
    /\ pc.main = "h_search"
    /\ hl.c_pid \in Pids
    /\ kind[hl.c_pid] = "fg"
    /\ hl.process # NULLP

\* C10: end of input is handed over exactly as a typed "exit" line: the same
\* buffer (the exit command), echoed on end of input, never forked, and
\* command_execute runs the exit built-in (the interrupt flag is set).
C10_EofIsExit ==
    lastRead \in {ReadOk(<<>>), Line(CMD_EXIT)} =>
        /\ buffer = strcpy(ZeroBuffer, CMD_EXIT)
        /\ buffer = input_read(Line(CMD_EXIT)).buffer
        /\ lastRead.n = 0 => echoed = CMD_EXIT \o <<NL>>
        /\ pc.cmd \notin {"c_fork", "c_setfg", "c_waitpid", "c_clearfg",
                          "c_bg1", "c_bg2"}
        /\ (pc.cmd = "c_fin" /\ diag.cmd = "none") => interrupt = 1

\* C10 witness: end of input was read and the exit built-in has run.
C10_Witness == lastRead.n = 0 /\ pc.cmd = "c_fin" /\ interrupt = 1

\* C11: while an over-long line is being rejected (its diagnostic is out and
\* the input thread has not yet finished the cycle) nothing is executed:
\* "command pending" and the interrupt flag are clear, the commands thread
\* is not executing anything and no foreground child is recorded; and the
\* input thread can go on towards the next prompt and the next line.
C11_TooLongRejected ==
    diag.input = "toolong" =>
        /\ lastRead.n > EFFECTIVE_BUFFER_SIZE
        /\ new_command = 0
        /\ interrupt = 0
        /\ fg_pid = NOPID
        /\ ~ExecSection
        /\ ENABLED (InputDrain \/ InputUnlock)

\* A word character: not white space, not the terminator, not a marker.
IsMarker(c) == c \in {RUN_IN_BG, REDIR_OUT, REDIR_IN}
IsWordChar(c) == ~isspace(c) /\ c # NUL /\ ~IsMarker(c)

\* The offsets of the line at which a token begins.
TokenStarts(line) ==
    {i \in 0..(EFFECTIVE_BUFFER_SIZE - 1) :
        IsWordChar(line[i]) /\ (i = 0 \/ ~IsWordChar(line[i - 1]))}

\* The marker a token begins right after: the nearest marker between the
\* previous token and offset j + 1, NUL when there is none.
RECURSIVE MarkerBefore(_, _)
MarkerBefore(line, j) ==
    IF j < 0 \/ IsWordChar(line[j]) THEN NUL
    ELSE IF IsMarker(line[j]) THEN line[j]
    ELSE MarkerBefore(line, j - 1)

RECURSIVE TokenAt(_, _)
TokenAt(line, i) ==
    IF i > BUFFER_SIZE - 1 \/ ~IsWordChar(line[i]) THEN <<>>
    ELSE <<line[i]>> \o TokenAt(line, i + 1)

\* The tokens from offset i on that do not begin right after a redirect
\* marker, in input order.
RECURSIVE ArgumentsFrom(_, _)
ArgumentsFrom(line, i) ==
    IF i >= EFFECTIVE_BUFFER_SIZE THEN <<>>
    ELSE (IF i \in TokenStarts(line)
             /\ MarkerBefore(line, i - 1) \notin {REDIR_IN, REDIR_OUT}
          THEN <<TokenAt(line, i)>> ELSE <<>>) \o ArgumentsFrom(line, i + 1)

\* The (last) token that begins right after marker m; empty when none does.
TargetAfter(line, m) ==
    LET S == {i \in TokenStarts(line) : MarkerBefore(line, i - 1) = m} IN
    IF S = {} THEN <<>>
    ELSE TokenAt(line, CHOOSE i \in S : \A j \in S : j <= i)

\* C12: of the line that was read, command_parse makes a redirect target of
\* the token that begins right after the redirect marker and of no other;
\* every other token is an argument, in input order.  (Seen in what
\* command_execute does next: the command it hands to command_fork, the
\* empty command, or the exit built-in.)
C12_OnlyTokenAfterMarkerIsTarget ==
    LET line == input_read(lastRead).buffer
        args == ArgumentsFrom(line, 0)
    IN
    /\ pc.cmd = "c_fork" =>
           /\ cl.command.args = args
           /\ cl.command.in = TargetAfter(line, REDIR_IN)
           /\ cl.command.out = TargetAfter(line, REDIR_OUT)
    /\ (pc.cmd = "c_fin" /\ diag.cmd = "none") => args = <<>>
    /\ pc.cmd = "x_loop" => (args # <<>> /\ args[1] = CMD_EXIT)

\* The line has no character but white space.
Blank(line) ==
    \A i \in 0..(EFFECTIVE_BUFFER_SIZE - 1) : isspace(line[i]) \/ line[i] = NUL

\* The line being executed was typed by the user and is blank.
BlankLineRead == lastRead.n > 0 /\ Blank(FilledBuffer(lastRead))

\* C13: a blank line parses to no argument, and the steps that execute it
\* (command_execute, then the end of the cycle of commands_handler) create
\* no child, report no error, leave the Registry, fg_pid and the interrupt
\* flag as they were, and complete the handshake: "command pending" is
\* cleared, the mutex released and the input thread woken from its wait.
C13_BlankLineIsNoOp ==
    [][(/\ BlankLineRead
        /\ pc.cmd \in {"c_exec", "c_fin"}
        /\ pc'.cmd # pc.cmd
        /\ diag.cmd # "malloc" /\ diag'.cmd # "malloc")
       => /\ command_parse(buffer).args = <<>>
          /\ pc.cmd = "c_exec" =>
                 /\ pc'.cmd = "c_fin"
                 /\ new_command' = 1
                 /\ mutex' = "cmd"
          /\ pc.cmd = "c_fin" =>
                 /\ pc'.cmd = "c_top"
                 /\ new_command' = 0
                 /\ mutex' = "none"
                 /\ pc'.input = "i_reacq"
          /\ diag'.cmd = "none"
          /\ forkRet' = 1
          /\ UNCHANGED <<child, kind, started, bg_head, heap, alloc, fg_pid,
                         interrupt>>]_vars

\* C13 witness: a line holding one space has been executed and the input
\* thread is released (it finishes its cycle), with no child ever created.
C13_Witness ==
    /\ lastRead = Line(<<SP>>)
    /\ pc.input = "i_unlock"
    /\ new_command = 0
    /\ \A p \in Pids : child[p] = "unborn"

\* C14: on an interrupt signal the shell keeps running and either forwards
\* the signal to the recorded foreground child (and to nothing else) or
\* redraws the prompt: the handler's kill is aimed at a foreground child's
\* pid, and the shell is alive throughout the handler's kill and redraw.
C14_InterruptForwardOrRedraw ==
    /\ sigint_sent # <<>> =>
           /\ sigint_sent[1] \in Pids
           /\ kind[sigint_sent[1]] = "fg"
    /\ pc.main \in {"h_kill", "ps_test", "ps_remove"} => shell = "running"

\* C15: while the SIGCHLD handler searches the Registry, the node it is
\* about to read or flag is a Job that is still allocated: never one that
\* prompt_show or command_exit_handler has already removed and freed.  (The
\* Reaper writes no link, so it cannot undo an insertion: C18.)
C15_ReaperNeverTouchesRemovedJob ==
    (pc.main = "h_search" /\ hl.process # NULLP) => alloc[hl.process]

\* C16: when the explicit foreground waitpid has failed with ECHILD and
\* command_fork has accepted that, fg_pid is -1 already: the Reaper has
\* cleared it for this child.
C16_EchildOnlyAfterReaperClearedFg ==
    (waitRes = "echild" /\ pc.cmd = "c_clearfg") => fg_pid = NOPID

\* A step of one of the two threads, or the termination of a child a thread
\* may be waiting for.
HandshakeStep ==
    \/ InputLoop \/ InputLock \/ InputRead \/ InputDrain \/ InputWait
    \/ InputUnlock \/ PromptTest("input") \/ PromptRemove("input")
    \/ \E t \in {"input", "cmd"} : CondReacquire(t)
    \/ CmdLoop \/ CmdLock \/ CmdWait \/ CmdExecute \/ CmdFork \/ CmdSetFg
    \/ CmdWaitpid \/ CmdClearFg \/ CmdBgCreate \/ CmdBgLink \/ ExitLoop
    \/ ExitInterrupt \/ CmdFinish
    \/ \E p \in Pids : ChildExit(p)

\* C17: a command that is pending gets executed and the input thread gets
\* released.  No wake-up is lost (a thread sleeps in pthread_cond_wait only
\* while its condition is still unmet, so the two never sleep together),
\* and while a command is pending the shell is alive and the handshake can
\* move on: the command is not abandoned before new_command is cleared.
C17_PendingCommandIsExecuted ==
    /\ pc.input = "i_blocked" => new_command = 1
    /\ pc.cmd = "c_blocked" => new_command = 0
    /\ new_command = 1 => (shell = "running" /\ ENABLED HandshakeStep)

\* A step of the SIGCHLD handler.
ReaperStep ==
    /\ pc.main \in {"h_chld", "h_search"}
    /\ pc'.main # pc.main \/ hl' # hl \/ hReaped' # hReaped

\* C18: a step of the Reaper inserts and removes nothing (bg_head, every
\* next link, every pid and the allocation stay), changes at most one
\* thing, and that is either fg_pid, cleared for the child just reaped, or
\* the flag of the Job whose pid is the reaped one, from alive to
\* terminated; when the search ends without a match nothing has changed.
C18_ReaperFrame ==
    [][ReaperStep =>
        /\ UNCHANGED <<bg_head, alloc>>
        /\ \A n \in Nodes :
              /\ heap'[n].next = heap[n].next
              /\ heap'[n].pid = heap[n].pid
              /\ heap'[n].running # heap[n].running =>
                    /\ heap[n].running = 1 /\ heap'[n].running = 0
                    /\ heap[n].pid = hl.c_pid
                    /\ child[hl.c_pid] = "reaped"
                    /\ fg_pid' = fg_pid
                    /\ \A m \in Nodes \ {n} : heap'[m] = heap[m]
        /\ fg_pid' # fg_pid =>
              /\ fg_pid' = NOPID
              /\ child[fg_pid] = "zombie" /\ child'[fg_pid] = "reaped"
              /\ heap' = heap
        /\ (pc.main = "h_search" /\ hl.process = NULLP) =>
              UNCHANGED <<heap, fg_pid>>]_vars

\* C18 witness: in one activation the Reaper has reaped a child and the
\* Registry holds a Job flagged terminated next to a Job flagged alive.
C18_Witness ==
    /\ pc.main = "h_chld"
    /\ hReaped >= 1
    /\ \E n, m \in Registry : heap[n].running = 0 /\ heap[m].running = 1

\* A step that restructures the Job list: bg_head, a next link, or the
\* allocation of a node changes.
StructuralChange ==
    \/ bg_head' # bg_head
    \/ alloc' # alloc
    \/ \E n \in Nodes : heap'[n].next # heap[n].next

\* C19: every step that restructures the Job list is taken by the thread
\* that holds the handshake mutex at that moment (the signal handler on
\* the main thread never holds it).
C19_RegistryChangesUnderMutex ==
    [][StructuralChange =>
        /\ mutex # "none"
        /\ pc'.main = pc.main
        /\ mutex = "input" => pc'.input # pc.input
        /\ mutex = "cmd" => (pc'.cmd # pc.cmd \/ cl' # cl)]_vars

\* C20: whenever fg_pid is not -1, command_fork is waiting for (or has just
\* waited for) the foreground child of the command being executed, fg_pid
\* is that child's pid, and the child has not been reaped: a SIGINT the
\* handler forwards to fg_pid cannot reach a reclaimed pid.
C20_FgPidIsUnreapedChild ==
    fg_pid # NOPID =>
        /\ pc.cmd \in {"c_waitpid", "c_clearfg"}
        /\ fg_pid = cl.c_pid
        /\ kind[fg_pid] = "fg"
        /\ child[fg_pid] \in {"running", "zombie"}

====
